---- MODULE Spec2Model ----
(***************************************************************************)
(* Model of the hex-grid algorithms of src/rust/src/lib.rs: HexMath        *)
(* (hex_distance, hex_neighbors, find_path), InfluenceMap,                 *)
(* TerritoryFrontier, CombatQuery, ResourceCounter and HexLOS.             *)
(*                                                                         *)
(* A position (Vector2i) is a pair <<x, y>>.  A call is modelled by its    *)
(* frame: args (the arguments), ret (the returned value), pc (where the    *)
(* call stands) and panicked (the call ended in a Rust panic).  open,      *)
(* came_from and g_scores are the locals of find_path's search loop;       *)
(* influence, width, height and num_players are the fields of              *)
(* InfluenceMap; computed remembers the arguments of the most recent       *)
(* compute call (<<>> before the first), for the claims to speak of.       *)
(*                                                                         *)
(* f64 movement costs are held in quarter units (Quarter = 1.0), which     *)
(* f64 adds and compares exactly.                                          *)
(***************************************************************************)
EXTENDS Integers, Sequences, FiniteSets, TLC

VARIABLES args, ret, pc, panicked,
          open, came_from, g_scores,
          influence, width, height, num_players, computed

vars == <<args, ret, pc, panicked, open, came_from, g_scores,
          influence, width, height, num_players, computed>>

searchVars == <<open, came_from, g_scores>>

influenceVars == <<influence, width, height, num_players, computed>>

\* ---------------------------------------------------------------- bounds

\* hex_neighbors is called on columns and rows in -MaxCoord..MaxCoord.
MaxCoord == 5
\* get_frontier is called on grids of up to MaxWidth x MaxHeight tiles.
MaxWidth == 3
MaxHeight == 2
\* find_targets_in_range is called on up to MaxUnits positions and owners.
MaxUnits == 3
\* compute_resources is called on up to MaxTiles tile types and owners.
MaxTiles == 2
\* find_path is called with max_distance in -1..MaxDistance.
MaxDistance == 2
\* 1.0 as an f64 cost, in quarter units (the default edge cost, and the
\* weight of one hex of the heuristic).
Quarter == 4

\* ------------------------------------------------------------- arithmetic

Abs(x) == IF x < 0 THEN -x ELSE x

Min(a, b) == IF a < b THEN a ELSE b

Max(a, b) == IF a < b THEN b ELSE a

\* Rust's i32 `/`: the quotient truncated toward zero (b > 0).
TruncDiv(a, b) == IF a >= 0 THEN a \div b ELSE -((-a) \div b)

\* Rust's `x & 1` on a two's-complement i32: 1 for every odd x, negative or not.
BitAnd1(x) == x % 2

\* ---------------------------------------------------------------- HexMath

\* to_axial with x / 2 in place of (x - (x & 1)) / 2: the truncated quotient
\* is one too large for a negative odd column.
to_axial_trunc(pos) == <<pos[1], pos[2] - TruncDiv(pos[1], 2)>>

to_axial(pos) == <<pos[1], pos[2] - TruncDiv(pos[1] - BitAnd1(pos[1]), 2)>>

hex_distance(from, to) ==
    LET a == to_axial(from)
        b == to_axial(to)
    IN  TruncDiv(Abs(a[1] - b[1]) + Abs(a[1] + a[2] - b[1] - b[2]) + Abs(a[2] - b[2]), 2)

dirs_even == << <<1, 0>>, <<1, -1>>, <<0, -1>>, <<-1, -1>>, <<-1, 0>>, <<0, 1>> >>

dirs_odd == << <<1, 1>>, <<1, 0>>, <<0, -1>>, <<-1, 0>>, <<-1, 1>>, <<0, 1>> >>

\* hex_neighbors that always uses the even-column table.
hex_neighbors_noparity(pos) ==
    [i \in 1..6 |-> <<pos[1] + dirs_even[i][1], pos[2] + dirs_even[i][2]>>]

hex_neighbors(pos) ==
    LET dirs == IF BitAnd1(pos[1]) = 0 THEN dirs_even ELSE dirs_odd
    IN  [i \in 1..6 |-> <<pos[1] + dirs[i][1], pos[2] + dirs[i][2]>>]

\* -------------------------------------------------------------- find_path

\* costs.get(n).unwrap_or(1.0)
CostOf(costs, n) == IF n \in DOMAIN costs THEN costs[n] ELSE Quarter

\* Every step costing 1.0, the cost map never read.
EdgeCostUniform(costs, cur, n) == Quarter

\* The cost of the step from cur into n: keyed by the tile entered.
EdgeCost(costs, cur, n) == CostOf(costs, n)

\* hex_distance(..) as f64, the heuristic of a node.
Heuristic(p, to) == Quarter * hex_distance(p, to)

\* The neighbour is pruned: blocked, or beyond max_distance of `from`.
PrunedNoRadius(a, np) == np \in a.blocked

Pruned(a, np) ==
    \/ np \in a.blocked
    \/ hex_distance(a.from, np) > a.max_distance

\* The body of `for n in neighbors` for the i-th neighbour and those after
\* it; st holds open, came_from and g_scores.
RECURSIVE Relax(_, _, _, _, _)
Relax(st, a, cur, current_g, i) ==
    IF i > 6 THEN st
    ELSE LET np == hex_neighbors(cur)[i]
             tentative_g == current_g + EdgeCost(a.costs, cur, np)
             better == IF np \in DOMAIN st.g THEN tentative_g < st.g[np] ELSE TRUE
         IN  IF Pruned(a, np) \/ ~better
             THEN Relax(st, a, cur, current_g, i + 1)
             ELSE Relax([open |-> st.open \cup {[pos |-> np, g |-> tentative_g,
                                                    f |-> tentative_g + Heuristic(np, a.to)]},
                         cf   |-> (np :> cur) @@ st.cf,
                         g    |-> (np :> tentative_g) @@ st.g],
                        a, cur, current_g, i + 1)

\* Reconstruct without `path.push(start)`.
RECURSIVE ReconstructNoStart(_, _, _)
ReconstructNoStart(cf, start, cur) ==
    IF cur = start THEN <<>>
    ELSE Append(ReconstructNoStart(cf, start, cf[cur]), cur)

\* The path from start to cur read back through came_from, start first.
RECURSIVE Reconstruct(_, _, _)
Reconstruct(cf, start, cur) ==
    IF cur = start THEN <<start>>
    ELSE Append(Reconstruct(cf, start, cf[cur]), cur)

Froms == {<<0, 0>>, <<1, 0>>}

Targets == {<<0, 0>>, <<0, 1>>, <<0, 2>>, <<1, 2>>, <<2, 1>>}

BlockTiles == {<<0, 1>>, <<1, 1>>, <<0, 2>>}

CostTiles == {<<0, 1>>, <<1, 0>>, <<1, 1>>}

\* 0.25, 1.0 and 2.0
CostValues == {1, Quarter, 2 * Quarter}

CostMaps == UNION {[D -> CostValues] : D \in SUBSET CostTiles}

\* Lines 57-93: the blocked test on `to`, then the start node is pushed.
FindPathCall ==
    /\ pc = "idle"
    /\ \E from \in Froms, to \in Targets, blocked \in SUBSET BlockTiles,
          costs \in CostMaps, max_distance \in -1..MaxDistance :
          /\ args' = [from |-> from, to |-> to, blocked |-> blocked,
                      costs |-> costs, max_distance |-> max_distance]
          /\ IF to \in blocked
             THEN /\ pc' = "done"
                  /\ ret' = <<>>
                  /\ UNCHANGED searchVars
             ELSE /\ pc' = "search"
                  /\ ret' = <<>>
                  /\ open' = {[pos |-> from, g |-> 0, f |-> Heuristic(from, to)]}
                  /\ came_from' = <<>>
                  /\ g_scores' = (from :> 0)
    /\ UNCHANGED <<panicked, influenceVars>>

\* One turn of `while let Some(current) = open.pop()`: a node of least f
\* leaves the heap (which one among equals is the heap's business).  The
\* locals are dropped when the function returns.
FindPathStep ==
    /\ pc = "search"
    /\ \E current \in open :
          /\ \A o \in open : current.f <= o.f
          /\ IF current.pos = args.to
             THEN /\ ret' = Reconstruct(came_from, args.from, args.to)
                  /\ pc' = "done"
                  /\ open' = {}
                  /\ came_from' = <<>>
                  /\ g_scores' = <<>>
             ELSE IF current.g > g_scores[current.pos]
             THEN /\ open' = open \ {current}
                  /\ UNCHANGED <<ret, pc, came_from, g_scores>>
             ELSE LET st == Relax([open |-> open \ {current}, cf |-> came_from,
                                   g |-> g_scores],
                                  args, current.pos, g_scores[current.pos], 1)
                  IN  /\ open' = st.open
                      /\ came_from' = st.cf
                      /\ g_scores' = st.g
                      /\ UNCHANGED <<ret, pc>>
    /\ UNCHANGED <<args, panicked, influenceVars>>

\* Line 148: the heap ran empty.
FindPathExhausted ==
    /\ pc = "search"
    /\ open = {}
    /\ ret' = <<>>
    /\ pc' = "done"
    /\ came_from' = <<>>
    /\ g_scores' = <<>>
    /\ UNCHANGED <<args, panicked, open, influenceVars>>

NoCall ==
    /\ args = <<>>
    /\ ret = <<>>
    /\ pc = "idle"
    /\ panicked = FALSE

NoSearch ==
    /\ open = {}
    /\ came_from = <<>>
    /\ g_scores = <<>>

\* InfluenceMap as #[class(init)] constructs it.
NoInfluence ==
    /\ influence = <<>>
    /\ width = 0
    /\ height = 0
    /\ num_players = 0
    /\ computed = <<>>

PathInit == NoCall /\ NoSearch /\ NoInfluence

PathNext == FindPathCall \/ FindPathStep \/ FindPathExhausted

SpecPath == PathInit /\ [][PathNext]_vars

\* ------------------------------------------------- find_path: the claims

Done == pc = "done"

\* The sum of the costs of the path's tiles after the first.
RECURSIVE PathCost(_, _)
PathCost(costs, path) ==
    IF Len(path) <= 1 THEN 0
    ELSE PathCost(costs, SubSeq(path, 1, Len(path) - 1)) + CostOf(costs, path[Len(path)])

Adjacent(p, q) == hex_distance(p, q) = 1

\* A tile a walk may enter: not blocked, within max_distance of `from`.
Allowed(a, p) == p \notin a.blocked /\ hex_distance(a.from, p) <= a.max_distance

\* `from` and the tiles a walk may enter.
Region(a) ==
    {a.from} \cup
    {p \in ((a.from[1] - a.max_distance)..(a.from[1] + a.max_distance))
           \X ((a.from[2] - a.max_distance)..(a.from[2] + a.max_distance)) : Allowed(a, p)}

SetMin(S) == CHOOSE m \in S : \A n \in S : m <= n

\* The least cost of a walk from `from` to each tile of the region, -1 where
\* no walk arrives: the fixed point of relaxing every adjacent pair (tiles at
\* hex_distance 1 are at most one column and one row apart).
RECURSIVE Settle(_, _)
Settle(a, D) ==
    LET R == DOMAIN D
        D2 == [p \in R |->
                 LET near == ((p[1] - 1)..(p[1] + 1)) \X ((p[2] - 1)..(p[2] + 1))
                     via == {D[q] + CostOf(a.costs, p) :
                               q \in {q \in near \cap R : D[q] >= 0 /\ Adjacent(q, p)}}
                     all == via \cup (IF D[p] >= 0 THEN {D[p]} ELSE {})
                 IN  IF p = a.from THEN 0
                     ELSE IF all = {} THEN -1 ELSE SetMin(all)]
    IN  IF D2 = D THEN D ELSE Settle(a, D2)

MinCost(a) ==
    LET D == Settle(a, [p \in Region(a) |-> IF p = a.from THEN 0 ELSE -1])
    IN  IF a.to \in DOMAIN D THEN D[a.to] ELSE -1

CostsAtLeastOne(a) == \A p \in DOMAIN a.costs : a.costs[p] >= Quarter

\* C1 as stated: for every map of positive costs, a returned path's cost is
\* the least cost of any walk from `from` to `to` through allowed tiles.
C1_MinimalForPositiveCosts ==
    (Done /\ ret # <<>>) => PathCost(args.costs, ret) = MinCost(args)

\* C1 amended: when every cost of the map is at least 1.0, a returned path's
\* cost is the least cost of any walk from `from` to `to` through hex-adjacent
\* tiles that, after the first, avoid blockedSet and lie within maxDistance.
C1_MinimalWhenCostsAtLeastOne ==
    (Done /\ ret # <<>> /\ CostsAtLeastOne(args)) =>
        PathCost(args.costs, ret) = MinCost(args)

\* A returned path of two steps that went round a tile costing more than 1.0
\* which lies between `from` and `to`.
C1_Witness ==
    /\ Done /\ ret # <<>> /\ CostsAtLeastOne(args)
    /\ Len(ret) = 3
    /\ \E p \in DOMAIN args.costs :
          /\ args.costs[p] > Quarter
          /\ Adjacent(args.from, p) /\ Adjacent(p, args.to)
          /\ p \notin args.blocked
          /\ p # ret[2]

\* C4: a non-empty returned path starts at `from`, ends at `to` and moves
\* between hex-adjacent tiles; from = to, not blocked, gives [from] whatever
\* maxDistance is.
C4_PathShape ==
    /\ (Done /\ ret # <<>>) =>
          /\ ret[1] = args.from
          /\ ret[Len(ret)] = args.to
          /\ \A i \in 1..(Len(ret) - 1) : hex_distance(ret[i], ret[i + 1]) = 1
    /\ (Done /\ args.from = args.to /\ args.to \notin args.blocked) =>
          ret = <<args.from>>

\* A returned path of three steps or more.
C4_Witness == Done /\ Len(ret) >= 4

\* C10: no tile of a returned path after the first is blocked or beyond
\* maxDistance of `from`; a blocked `to`, or a `to` other than `from` beyond
\* maxDistance, gives the empty path.
C10_RadiusAndBlocked ==
    /\ (Done /\ ret # <<>>) =>
          \A i \in 2..Len(ret) :
             /\ ret[i] \notin args.blocked
             /\ hex_distance(args.from, ret[i]) <= args.max_distance
    /\ (Done /\ (\/ args.to \in args.blocked
                 \/ /\ args.from # args.to
                    /\ hex_distance(args.from, args.to) > args.max_distance)) =>
          ret = <<>>

\* A returned path with more steps than maxDistance (the cap is a radius),
\* found round a blocked tile.
C10_Witness ==
    /\ Done /\ ret # <<>>
    /\ args.max_distance >= 1
    /\ Len(ret) - 1 > args.max_distance
    /\ args.blocked # {}

\* The sequences over S of length at most n.
SeqsUpTo(S, n) == UNION {[1..k -> S] : k \in 0..n}

\* The elements of a sequence.
Range(q) == {q[i] : i \in 1..Len(q)}

\* ----------------------------------------------------------- hex_neighbors

HexNeighborsCall ==
    /\ pc = "idle"
    /\ \E x \in -MaxCoord..MaxCoord, y \in -MaxCoord..MaxCoord :
          /\ args' = [pos |-> <<x, y>>]
          /\ ret' = hex_neighbors(<<x, y>>)
    /\ pc' = "done"
    /\ UNCHANGED <<panicked, searchVars, influenceVars>>

HexInit == NoCall /\ NoSearch /\ NoInfluence

HexNext == HexNeighborsCall

SpecHex == HexInit /\ [][HexNext]_vars

\* C9: each of the 6 coordinates hex_neighbors(p) returns is at hex_distance
\* exactly 1 from p, for negative and non-negative columns and rows of both
\* parities.
C9_NeighborsAtDistanceOne ==
    Done =>
        /\ Len(ret) = 6
        /\ \A i \in 1..6 : hex_distance(args.pos, ret[i]) = 1

\* The neighbours of a tile in a negative odd column and a negative row.
C9_Witness ==
    /\ Done
    /\ args.pos[1] < 0 /\ args.pos[1] % 2 = 1 /\ args.pos[2] < 0
    /\ Cardinality(Range(ret)) = 6

\* ------------------------------------------------------ TerritoryFrontier

\* hex_neighbors_vec with the two parity arms exchanged.
hex_neighbors_vec_swapped(x, y) ==
    IF BitAnd1(x) = 1
    THEN << <<x + 1, y>>, <<x + 1, y - 1>>, <<x, y - 1>>,
            <<x - 1, y - 1>>, <<x - 1, y>>, <<x, y + 1>> >>
    ELSE << <<x + 1, y + 1>>, <<x + 1, y>>, <<x, y - 1>>,
            <<x - 1, y>>, <<x - 1, y + 1>>, <<x, y + 1>> >>

hex_neighbors_vec(x, y) ==
    IF BitAnd1(x) = 0
    THEN << <<x + 1, y>>, <<x + 1, y - 1>>, <<x, y - 1>>,
            <<x - 1, y - 1>>, <<x - 1, y>>, <<x, y + 1>> >>
    ELSE << <<x + 1, y + 1>>, <<x + 1, y>>, <<x, y - 1>>,
            <<x - 1, y>>, <<x - 1, y + 1>>, <<x, y + 1>> >>

\* The body of `for (nx, ny) in hex_neighbors_vec(x, y)` for the k-th
\* neighbour and those after it; result doubles as frontier_set, which holds
\* exactly the tiles pushed.  owner_grid[ni] is owner_grid[ni + 1] here.
RECURSIVE FrontierVisit(_, _, _, _, _)
FrontierVisit(a, x, y, k, result) ==
    IF k > 6 THEN result
    ELSE LET n == hex_neighbors_vec(x, y)[k]
             nx == n[1]
             ny == n[2]
             ni == ny * a.map_width + nx
         IN  IF \/ nx < 0 \/ ny < 0 \/ nx >= a.map_width \/ ny >= a.map_height
                \/ ni >= Len(a.owner_grid)
                \/ a.owner_grid[ni + 1] = a.player_id
                \/ n \in Range(result)
             THEN FrontierVisit(a, x, y, k + 1, result)
             ELSE FrontierVisit(a, x, y, k + 1, Append(result, n))

\* `for i in 0..owner_grid.len().min(w * h)` from index i on.  i % w is only
\* evaluated inside the loop, which is empty when w = 0.
RECURSIVE FrontierScan(_, _, _)
FrontierScan(a, i, result) ==
    IF i >= Min(Len(a.owner_grid), a.map_width * a.map_height) THEN result
    ELSE IF a.owner_grid[i + 1] # a.player_id THEN FrontierScan(a, i + 1, result)
    ELSE FrontierScan(a, i + 1,
                      FrontierVisit(a, i % a.map_width, i \div a.map_width, 1, result))

\* Owners of a tile: -1 (unowned) or player 0.
FrontierOwners == {-1, 0}

\* The player asked about: -1, 0, or 1 (who owns nothing).
FrontierPlayers == {-1, 0, 1}

GetFrontierCall ==
    /\ pc = "idle"
    /\ \E map_width \in 0..MaxWidth, map_height \in 0..MaxHeight,
          player_id \in FrontierPlayers :
          \E owner_grid \in [1..(map_width * map_height) -> FrontierOwners] :
             /\ args' = [owner_grid |-> owner_grid, player_id |-> player_id,
                         map_width |-> map_width, map_height |-> map_height]
             /\ ret' = FrontierScan(args', 0, <<>>)
    /\ pc' = "done"
    /\ UNCHANGED <<panicked, searchVars, influenceVars>>

FrontierInit == NoCall /\ NoSearch /\ NoInfluence

FrontierNext == GetFrontierCall

SpecFrontier == FrontierInit /\ [][FrontierNext]_vars

\* The tiles of the grid, and the owner of one (row-major, index y*w + x).
GridTiles(a) == (0..(a.map_width - 1)) \X (0..(a.map_height - 1))

OwnerAt(a, p) == a.owner_grid[p[2] * a.map_width + p[1] + 1]

OwnedBy(a) == {q \in GridTiles(a) : OwnerAt(a, q) = a.player_id}

\* The row-major index of the first owned tile adjacent to p.
FirstDiscoverer(a, p) ==
    SetMin({q[2] * a.map_width + q[1] : q \in {q \in OwnedBy(a) : Adjacent(p, q)}})

InRangeStrict(dx, dy, r2) == dx * dx + dy * dy < r2

\* dx * dx + dy * dy <= r2, exact in f32 on the whole-number positions and
\* radii used here.
InRange(dx, dy, r2) == dx * dx + dy * dy <= r2

\* The two loops from (i, j) on; indices are the code's, from 0.
RECURSIVE TargetsScan(_, _, _, _, _)
TargetsScan(a, n, i, j, result) ==
    IF i >= n THEN result
    ELSE IF j >= n THEN TargetsScan(a, n, i + 1, 0, result)
    ELSE IF \/ i = j
            \/ a.owner_ids[i + 1] = a.owner_ids[j + 1]
            \/ ~InRange(a.positions[i + 1][1] - a.positions[j + 1][1],
                        a.positions[i + 1][2] - a.positions[j + 1][2],
                        a.radius * a.radius)
    THEN TargetsScan(a, n, i, j + 1, result)
    ELSE TargetsScan(a, n, i, j + 1, Append(Append(result, i), j))

CombatPoints == (0..1) \X (0..1)

CombatOwners == {0, 1}

CombatRadii == {-1, 0, 1, 2}

FindTargetsCall ==
    /\ pc = "idle"
    /\ \E positions \in SeqsUpTo(CombatPoints, MaxUnits),
          owner_ids \in SeqsUpTo(CombatOwners, MaxUnits),
          radius \in CombatRadii :
          /\ args' = [positions |-> positions, owner_ids |-> owner_ids,
                      radius |-> radius]
          /\ ret' = TargetsScan(args', Min(Len(positions), Len(owner_ids)), 0, 0, <<>>)
    /\ pc' = "done"
    /\ UNCHANGED <<panicked, searchVars, influenceVars>>

CombatInit == NoCall /\ NoSearch /\ NoInfluence

CombatNext == FindTargetsCall

SpecCombat == CombatInit /\ [][CombatNext]_vars

\* How often the pair (i, j) stands at an odd and the next even place of ret.
PairCount(r, i, j) ==
    Cardinality({k \in 1..(Len(r) \div 2) : r[2 * k - 1] = i /\ r[2 * k] = j})

DistSq(p, q) == (p[1] - q[1]) * (p[1] - q[1]) + (p[2] - q[2]) * (p[2] - q[2])

\* C7: with n the shorter of the two lengths, the ordered pair (i, j), i # j,
\* i, j < n, is in the result once if the owners differ and the squared
\* distance is at most radius squared, and not at all otherwise; nothing else
\* is in the result; so (i, j) is there iff (j, i) is, and radius 0 pairs
\* only overlapping units of different owners.
C7_TargetsExact ==
    Done =>
        LET n == Min(Len(args.positions), Len(args.owner_ids))
            Opposed(i, j) ==
                /\ args.owner_ids[i + 1] # args.owner_ids[j + 1]
                /\ DistSq(args.positions[i + 1], args.positions[j + 1])
                      <= args.radius * args.radius
        IN  /\ Len(ret) % 2 = 0
            /\ \A k \in 1..Len(ret) : ret[k] \in 0..(n - 1)
            /\ \A i, j \in 0..(n - 1) :
                  /\ PairCount(ret, i, j) =
                        IF i # j /\ Opposed(i, j) THEN 1 ELSE 0
                  /\ (PairCount(ret, i, j) > 0) = (PairCount(ret, j, i) > 0)
                  /\ (args.radius = 0 /\ PairCount(ret, i, j) > 0) =>
                        args.positions[i + 1] = args.positions[j + 1]

\* Three positions but two owners, so n = 2: the two units of different
\* owners at squared distance exactly radius squared are paired both ways,
\* and the third position is in no pair.
C7_Witness ==
    /\ Done
    /\ Len(args.positions) = 3 /\ Len(args.owner_ids) = 2
    /\ args.radius = 1
    /\ DistSq(args.positions[1], args.positions[2]) = 1
    /\ ret = <<0, 1, 1, 0>>

\* -------------------------------------------------------- ResourceCounter

\* The yield table with the catch-all arm yielding what plains yield.
YieldDefaultPlains(t) ==
    CASE t = 1 -> <<0, 2, 0>>
      [] t = 2 -> <<0, 3, 1>>
      [] t = 3 -> <<0, 0, 2>>
      [] t = 4 -> <<1, 0, 1>>
      [] t = 5 -> <<3, 1, 0>>
      [] OTHER -> <<1, 1, 0>>

\* `match tile_types[i]`: (food, production, gold).
Yield(t) ==
    CASE t = 0 -> <<1, 1, 0>>
      [] t = 1 -> <<0, 2, 0>>
      [] t = 2 -> <<0, 3, 1>>
      [] t = 3 -> <<0, 0, 2>>
      [] t = 4 -> <<1, 0, 1>>
      [] t = 5 -> <<3, 1, 0>>
      [] OTHER -> <<0, 0, 0>>

\* `for i in 0..n` from index i on; totals is indexed by player id from 0.
RECURSIVE ResourceScan(_, _, _, _)
ResourceScan(a, n, i, totals) ==
    IF i >= n THEN totals
    ELSE LET owner == a.owner_grid[i + 1]
             y == Yield(a.tile_types[i + 1])
         IN  IF owner < 0 \/ owner >= a.num_players
             THEN ResourceScan(a, n, i + 1, totals)
             ELSE ResourceScan(a, n, i + 1,
                               [totals EXCEPT ![owner] =
                                   <<@[1] + y[1], @[2] + y[2], @[3] + y[3]>>])

\* Tile type codes: the six of the table, and -1 and 6, which are not in it.
ResourceTypes == -1..6

ResourceOwners == {-1, 0, 1}

ResourcePlayers == 0..2

ComputeResourcesCall ==
    /\ pc = "idle"
    /\ \E tile_types \in SeqsUpTo(ResourceTypes, MaxTiles),
          owner_grid \in SeqsUpTo(ResourceOwners, MaxTiles),
          np \in ResourcePlayers :
          /\ args' = [tile_types |-> tile_types, owner_grid |-> owner_grid,
                      num_players |-> np]
          /\ ret' = ResourceScan(args', Min(Len(tile_types), Len(owner_grid)), 0,
                                 [pid \in 0..(np - 1) |-> <<0, 0, 0>>])
    /\ pc' = "done"
    /\ UNCHANGED <<panicked, searchVars, influenceVars>>

ResourceInit == NoCall /\ NoSearch /\ NoInfluence

ResourceNext == ComputeResourcesCall

SpecResources == ResourceInit /\ [][ResourceNext]_vars

\* The yield table as section 4.6 of the specification states it.
TableYield(t) ==
    IF t = 0 THEN <<1, 1, 0>>
    ELSE IF t = 1 THEN <<0, 2, 0>>
    ELSE IF t = 2 THEN <<0, 3, 1>>
    ELSE IF t = 3 THEN <<0, 0, 2>>
    ELSE IF t = 4 THEN <<1, 0, 1>>
    ELSE IF t = 5 THEN <<3, 1, 0>>
    ELSE <<0, 0, 0>>

\* The sum of component c of the table yields of the tiles at the indices I.
RECURSIVE YieldSum(_, _, _)
YieldSum(a, I, c) ==
    IF I = {} THEN 0
    ELSE LET i == CHOOSE i \in I : TRUE
         IN  TableYield(a.tile_types[i])[c] + YieldSum(a, I \ {i}, c)

\* The sum of component c of the result over the players P.
RECURSIVE ResultSum(_, _, _)
ResultSum(r, P, c) ==
    IF P = {} THEN 0
    ELSE LET q == CHOOSE q \in P : TRUE
         IN  r[q][c] + ResultSum(r, P \ {q}, c)

\* C8: compute_resources returns an entry for every player id in
\* [0, numPlayers) and no other; a player's triple is the sum of the table
\* yields of the tiles it owns below min(len(tileTypes), len(ownerGrid)); the
\* total over the players is the total yield of the tiles whose owner is in
\* [0, numPlayers).
C8_ResourcesExact ==
    Done =>
        LET n == Min(Len(args.tile_types), Len(args.owner_grid))
            Players == 0..(args.num_players - 1)
        IN  /\ DOMAIN ret = Players
            /\ \A q \in Players : \A c \in 1..3 :
                  ret[q][c] = YieldSum(args, {i \in 1..n : args.owner_grid[i] = q}, c)
            /\ \A c \in 1..3 :
                  ResultSum(ret, Players, c) =
                     YieldSum(args, {i \in 1..n : args.owner_grid[i] \in Players}, c)

\* Two players, two tile types but one owner, so n = 1: player 0 owns the
\* mountain, the second tile is not counted, and player 1 is listed with
\* zero totals.
C8_Witness ==
    /\ Done
    /\ args.num_players = 2
    /\ args.tile_types = <<2, 0>>
    /\ args.owner_grid = <<0>>
    /\ ret = (0 :> <<0, 3, 1>>) @@ (1 :> <<0, 0, 0>>)

\* ------------------------------------------------------------------ HexLOS

\* f64::round of the fraction n/d (d > 0): the nearest integer, a half
\* rounded away from zero.
RoundHalfAway(n, d) ==
    IF n >= 0 THEN (2 * n + d) \div (2 * d) ELSE -((2 * (-n) + d) \div (2 * d))

\* cube_round of (x/d, y/d, z/d): the three rounding errors are compared
\* scaled by d.  The fractions step/dist are exact here; f64 gives the same
\* roundings for columns and rows in 0..8.
cube_round(x, y, z, d) ==
    LET rx == RoundHalfAway(x, d)
        ry == RoundHalfAway(y, d)
        rz == RoundHalfAway(z, d)
        dx == Abs(rx * d - x)
        dy == Abs(ry * d - y)
        dz == Abs(rz * d - z)
    IN  IF dx > dy /\ dx > dz THEN <<-ry - rz, ry, rz>>
        ELSE IF dy > dz THEN <<rx, -rx - rz, rz>>
        ELSE <<rx, ry, -rx - ry>>

\* `for step in 1..dist` from step on: FALSE as soon as a tile of the line is
\* out of bounds or a mountain (type 2), TRUE when the loop ends.
RECURSIVE LosWalk(_, _, _)
LosWalk(a, dist, step) ==
    IF step >= dist THEN TRUE
    ELSE LET fa == to_axial(a.from)
             ta == to_axial(a.to)
             ax == fa[1]
             ay == fa[2]
             az == -ax - ay
             bx == ta[1]
             by == ta[2]
             bz == -bx - by
             r == cube_round(ax * dist + (bx - ax) * step,
                             ay * dist + (by - ay) * step,
                             az * dist + (bz - az) * step, dist)
             col == r[1]
             row == r[2] + TruncDiv(r[1] - BitAnd1(r[1]), 2)
             idx == row * a.map_width + col
         IN  IF col < 0 \/ row < 0 \/ col >= a.map_width \/ row >= a.map_height
             THEN FALSE
             ELSE IF idx < Len(a.tile_types) /\ a.tile_types[idx + 1] = 2
             THEN FALSE
             ELSE LosWalk(a, dist, step + 1)

has_line_of_sight(a) ==
    LET dist == hex_distance(a.from, a.to)
    IN  IF dist <= 1 THEN TRUE ELSE LosWalk(a, dist, 1)

\* The 5x5 grid of plains with a mountain at offset (2, 2), index 2*5 + 2.
MountainGrid == [i \in 1..25 |-> IF i = 13 THEN 2 ELSE 0]

\* Tile grids passed with map_width = map_height = 5: the example's, all
\* plains, one row short, and empty.
LosGrids == {MountainGrid, [i \in 1..25 |-> 0], [i \in 1..20 |-> 0], <<>>}

LosCoords == 0..4

HasLineOfSightCall ==
    /\ pc = "idle"
    /\ \E fx \in LosCoords, fy \in LosCoords, tx \in LosCoords, ty \in LosCoords,
          tile_types \in LosGrids :
          /\ args' = [from |-> <<fx, fy>>, to |-> <<tx, ty>>,
                      tile_types |-> tile_types, map_width |-> 5, map_height |-> 5]
          /\ ret' = has_line_of_sight(args')
    /\ pc' = "done"
    /\ UNCHANGED <<panicked, searchVars, influenceVars>>

LosInit == NoCall /\ NoSearch /\ NoInfluence

LosNext == HasLineOfSightCall

SpecLOS == LosInit /\ [][LosNext]_vars

\* C2: on the 5x5 grid of plains with a mountain at (2, 2),
\* hasLineOfSight((0,2),(4,2)) is false and hasLineOfSight((0,0),(4,0)) is
\* true.
C2_Example ==
    (Done /\ args.tile_types = MountainGrid) =>
        /\ (args.from = <<0, 2>> /\ args.to = <<4, 2>>) => ret = FALSE
        /\ (args.from = <<0, 0>> /\ args.to = <<4, 0>>) => ret = TRUE

\* ------------------------------------------------------------ InfluenceMap

\* 0.5 * exp(-dist_sq / (2 * sigma * sigma)), sigma = 4.0, in thousandths,
\* for the squared distances within a grid of up to 3 x 3 cells.
HalfKernel(dist_sq) ==
    CASE dist_sq = 0 -> 500
      [] dist_sq = 1 -> 485
      [] dist_sq = 2 -> 470
      [] dist_sq = 4 -> 441
      [] dist_sq = 5 -> 428
      [] dist_sq = 8 -> 389

\* max_range = (sigma * 3.0) as i32
max_range == 12

\* The two nested dx, dy loops: grid with weight * kernel added to every
\* in-bounds cell within max_range columns and rows of (cx, cy).  weight
\* counts halves: 4 is the 2.0 of a unit, 1 the 0.5 of an owned tile.
AddKernel(grid, cx, cy, weight, w, h) ==
    [i \in 1..(w * h) |->
        LET nx == (i - 1) % w
            ny == (i - 1) \div w
        IN  IF Abs(nx - cx) <= max_range /\ Abs(ny - cy) <= max_range
            THEN grid[i] + weight * HalfKernel((nx - cx) * (nx - cx) + (ny - cy) * (ny - cy))
            ELSE grid[i]]

SetMax(S) == CHOOSE m \in S : \A n \in S : m >= n

\* `for pos in positions.iter_shared()` from the k-th position on.
RECURSIVE AddUnits(_, _, _, _, _)
AddUnits(grid, positions, k, w, h) ==
    IF k > Len(positions) THEN grid
    ELSE AddUnits(AddKernel(grid, positions[k][1], positions[k][2], 4, w, h),
                  positions, k + 1, w, h)

\* `for i in 0..territory_owner_grid.len()` from index i on; raw is indexed
\* by player id from 0.  Reached only with w > 0.
RECURSIVE AddTerritory(_, _, _, _, _, _)
AddTerritory(raw, owner_grid, i, np, w, h) ==
    IF i >= Len(owner_grid) THEN raw
    ELSE LET owner == owner_grid[i + 1]
         IN  IF owner < 0 \/ owner >= np
             THEN AddTerritory(raw, owner_grid, i + 1, np, w, h)
             ELSE AddTerritory([raw EXCEPT ![owner] =
                                   AddKernel(@, i % w, i \div w, 1, w, h)],
                               owner_grid, i + 1, np, w, h)

\* 1 + the largest player id among the keys and the owner values, at least 0.
NumPlayers(units, owner_grid) ==
    Max(SetMax({-1} \cup DOMAIN units \cup Range(owner_grid)) + 1, 0)

\* The territory loop divides by w: with w = 0 the first tile with a valid
\* owner makes `i % w` panic (every owner >= 0 is below np).
ComputePanics(a) ==
    /\ a.map_width = 0
    /\ \E i \in 1..Len(a.territory_owner_grid) : a.territory_owner_grid[i] >= 0

\* The net grids compute stores: own raw influence less the largest raw
\* influence of another player, never less than 0.0 taken off.
NetInfluence(a) ==
    LET w == a.map_width
        h == a.map_height
        np == NumPlayers(a.unit_positions_by_player, a.territory_owner_grid)
        keys == {k \in DOMAIN a.unit_positions_by_player : k >= 0 /\ k < np}
        units == [q \in 0..(np - 1) |->
                    IF q \in keys
                    THEN AddUnits([i \in 1..(w * h) |-> 0],
                                  a.unit_positions_by_player[q], 1, w, h)
                    ELSE [i \in 1..(w * h) |-> 0]]
        raw == AddTerritory(units, a.territory_owner_grid, 0, np, w, h)
    IN  [k \in 1..np |->
            [i \in 1..(w * h) |->
                raw[k - 1][i] - SetMax({0} \cup {raw[o][i] : o \in (0..(np - 1)) \ {k - 1}})]]

\* Unit positions by player: none; or player 1 at (1,1) and (0,0) beside a
\* key of -1, which `as usize` puts out of range.
InfluenceUnits ==
    {<<>>,
     (1 :> << <<1, 1>>, <<0, 0>> >>) @@ (-1 :> << <<1, 0>> >>)}

InfluenceOwners == {-1, 0, 1}

InfluenceWidths == 0..2

InfluenceHeights == 0..1

InfluenceGrids == SeqsUpTo(InfluenceOwners, 2)

InfluenceIds == -1..2

\* InfluenceMap::compute.  width, height and num_players are assigned before
\* the loops; a panic in the territory loop unwinds with them assigned and
\* influence as it was.
ComputeCall ==
    /\ \E units \in InfluenceUnits, owner_grid \in InfluenceGrids,
          w \in InfluenceWidths, h \in InfluenceHeights :
          LET a == [unit_positions_by_player |-> units,
                    territory_owner_grid |-> owner_grid,
                    map_width |-> w, map_height |-> h]
          IN  /\ args' = a
              /\ computed' = a
              /\ width' = w
              /\ height' = h
              /\ num_players' = NumPlayers(units, owner_grid)
              /\ IF ComputePanics(a)
                 THEN /\ panicked' = TRUE
                      /\ UNCHANGED influence
                 ELSE /\ panicked' = FALSE
                      /\ influence' = NetInfluence(a)
    /\ ret' = <<>>
    /\ pc' = "done"
    /\ UNCHANGED searchVars

\* InfluenceMap::get_player_influence: a negative id is a huge usize.
GetPlayerInfluenceCall ==
    /\ \E player_id \in InfluenceIds :
          /\ args' = [player_id |-> player_id]
          /\ ret' = IF player_id >= 0 /\ player_id < Len(influence)
                    THEN influence[player_id + 1]
                    ELSE <<>>
    /\ pc' = "done"
    /\ panicked' = FALSE
    /\ UNCHANGED <<searchVars, influenceVars>>

InfluenceInit == NoCall /\ NoSearch /\ NoInfluence

InfluenceNext == ComputeCall \/ GetPlayerInfluenceCall

SpecInfluence == InfluenceInit /\ [][InfluenceNext]_vars

\* C3: no call on inputs whose sizes disagree with width x height ends in a
\* panic (width = 0 or height = 0 with a non-empty grid of valid owners
\* included).
C3_NeverRaises == ~panicked

IsGet == Done /\ DOMAIN args = {"player_id"}

\* C5: get_player_influence reflects the most recent compute only: an array
\* of that call's width x height cells for 0 <= id < numPlayers (1 + the
\* largest id among that call's keys and owner values, at least 0), the empty
\* array for any other id, and for every id before any compute.
C5_ReflectsLastCompute ==
    IsGet =>
        IF computed = <<>> THEN ret = <<>>
        ELSE IF /\ args.player_id >= 0
                /\ args.player_id < NumPlayers(computed.unit_positions_by_player,
                                               computed.territory_owner_grid)
        THEN Len(ret) = computed.map_width * computed.map_height
        ELSE ret = <<>>
====
